---- MODULE Spec2Model ----
(***************************************************************************)
(* Model of the project board's state store (src/src/app.ts):              *)
(* class Project, State<T>.addListener, ProjectState.addProject,           *)
(* moveProject and updateListeners, and the listener that each ProjectList *)
(* registers in configure().                                               *)
(*                                                                         *)
(* JavaScript objects and arrays are references, so the model keeps a heap *)
(* of Project objects (objs, a reference is an index into it) and a heap   *)
(* of arrays of references (arrays): location LiveArray is the store's     *)
(* private this.projects, location i is the array handed to the i-th       *)
(* registered callback during the current notification.                    *)
(*                                                                         *)
(* A store operation runs synchronously: the step of addProject or         *)
(* moveProject applies the mutation and enters updateListeners, then one   *)
(* step per callback runs the loop body, and no other operation can start  *)
(* until the loop is over (pc = "idle").                                   *)
(***************************************************************************)
EXTENDS Integers, Sequences, FiniteSets, TLC

VARIABLES
  objs,              \* heap of Project objects; a reference is an index
  arrays,            \* heap of arrays: location -> sequence of references
  listeners,         \* State.listeners: the callbacks, in registration order
  assignedProjects,  \* ProjectList.assignedProjects of the view behind listener i
  pc,                \* "idle", or "updateListeners" while the loop runs
  cursor,            \* number of the next iteration of the loop of updateListeners
  op,                \* the store call being executed, or the last one executed
  post,              \* the store right after the mutation of that call
  log,               \* the callback invocations of that call, in order
  instance,          \* ProjectState.instance: Undefined, or the store it refers to
  created,           \* how many times new ProjectState() has run
  thrown,            \* whether an exception left the last store call
  stack,             \* the loops of updateListeners suspended in a callback
  titleInput,        \* ProjectInput.titleInputElement.value
  descriptionInput,  \* ProjectInput.descriptionInputElement.value
  peopleInput,       \* ProjectInput.peopleInputElement.value
  alerted,           \* whether the last submit raised the alert
  validatable,       \* the argument of the last call of validate
  isValid,           \* what that call returned, if it has returned
  payload,           \* the "text/plain" data of the drag in progress
  dragged,           \* the project of the item being dragged, if any
  droppedOn          \* the list view that received the last drop, if any

storeVars == <<objs, arrays, listeners, assignedProjects, pc, cursor, op, post, log>>
singletonVars == <<instance, created>>
formVars == <<titleInput, descriptionInput, peopleInput, alerted, validatable, isValid>>
dragVars == <<payload, dragged, droppedOn>>

vars == <<objs, arrays, listeners, assignedProjects, pc, cursor, op, post, log,
          instance, created, thrown, stack,
          titleInput, descriptionInput, peopleInput, alerted, validatable,
          isValid, payload, dragged, droppedOn>>

\* ---------------------------------------------------------------- bounds
MaxProjects == 3
MaxListeners == 2
MaxDepth == 1

\* ---------------------------------------------------------------- inputs
Titles == {"Build API", "Fix UI"}
Descriptions == {"REST service"}
PeopleCounts == {3}
\* outcomes of Math.random(), in quarters (1 stands for 0.25, 3 for 0.75)
RandomOutcomes == {1, 3}
\* the callbacks a caller can register: the listener of a ProjectList of
\* either type, or any other function of type Listener<Project>
ListenerKinds == {"active", "finished", "observer"}

\* ---------------------------------------------------------------- types
Active == 0
Finished == 1
ProjectStatus == {Active, Finished}

\* the value of Array.prototype.find when no element matches
Undefined == 0

\* the location of the store's private array this.projects
LiveArray == 0

\* Number.prototype.toString on the outcomes of Math.random()
toString(r) == IF r = 1 THEN "0.25" ELSE IF r = 3 THEN "0.75" ELSE "0.5"

\* what a drag payload can carry: the id of an item, or any other text
PayloadIds == {toString(r) : r \in RandomOutcomes} \cup {"nonexistent-id"}

Project(id, title, description, people, status) ==
  [id |-> id, title |-> title, description |-> description,
   people |-> people, status |-> status]

\* the store's project sequence
projects == arrays[LiveArray]

\* ---------------------------------------------------------------- arrays
\* a push that puts the element first (Array.prototype.unshift)
unshift(arr, x) == <<x>> \o arr

push(arr, x) == Append(arr, x)

reverse(arr) == [i \in 1..Len(arr) |-> arr[Len(arr) + 1 - i]]

pop(arr) == SubSeq(arr, 1, Len(arr) - 1)

\* a lookup that falls back to the first project when nothing matches
findOrFirst(arr, heap, projectId) ==
  LET hits == {i \in 1..Len(arr) : heap[arr[i]].id = projectId}
  IN IF hits = {} THEN (IF arr = <<>> THEN Undefined ELSE arr[1])
     ELSE arr[CHOOSE i \in hits : \A j \in hits : i <= j]

\* this.projects.find(prj => prj.id === projectId): the first match
find(arr, heap, projectId) ==
  LET hits == {i \in 1..Len(arr) : heap[arr[i]].id = projectId}
  IN IF hits = {} THEN Undefined
     ELSE arr[CHOOSE i \in hits : \A j \in hits : i <= j]

\* handing out the store's own array instead of a copy
sliceLive(i) == LiveArray

\* this.projects.slice() in the i-th iteration: the location of the new array
slice(i) == i

\* a filter that forgets the type of its list and always keeps the active ones
RECURSIVE filterActive(_, _, _)
filterActive(arr, heap, type) ==
  IF arr = <<>> THEN <<>>
  ELSE (IF heap[Head(arr)].status = Active THEN <<Head(arr)>> ELSE <<>>)
         \o filterActive(Tail(arr), heap, type)

\* projects.filter(prj => ...) of the listener of a ProjectList of this type
RECURSIVE filter(_, _, _)
filter(arr, heap, type) ==
  IF arr = <<>> THEN <<>>
  ELSE LET prj == heap[Head(arr)]
           keep == IF type = "active" THEN prj.status = Active
                   ELSE prj.status = Finished
       IN (IF keep THEN <<Head(arr)>> ELSE <<>>) \o filter(Tail(arr), heap, type)

\* ---------------------------------------------------------------- store
\* the fields of a new store and of the views, with no drag under way
InitFields ==
  /\ objs = <<>>
  /\ arrays = [a \in 0..MaxListeners |-> <<>>]
  /\ listeners = <<>>
  /\ assignedProjects = [i \in 1..MaxListeners |-> <<>>]
  /\ pc = "idle"
  /\ cursor = 0
  /\ op = [name |-> "none", id |-> "", title |-> "", description |-> "",
           people |-> 0, status |-> Active, changed |-> FALSE]
  /\ post = [arr |-> <<>>, objs |-> <<>>]
  /\ log = <<>>
  /\ thrown = FALSE
  /\ stack = <<>>
  /\ alerted = FALSE
  /\ payload = ""
  /\ dragged = Undefined
  /\ droppedOn = Undefined

\* the empty form, with no call of validate made
InitForm ==
  /\ titleInput = <<>>
  /\ descriptionInput = <<>>
  /\ peopleInput = <<>>
  /\ validatable = <<>>
  /\ isValid = <<>>

\* the store once const projectState = ProjectState.getInstance() has run
Init ==
  /\ InitFields
  /\ InitForm
  /\ instance = 1
  /\ created = 1

\* the class before its first getInstance()
InitSingleton ==
  /\ InitFields
  /\ InitForm
  /\ instance = Undefined
  /\ created = 0

\* entering the loop of updateListeners
updateListeners ==
  IF Len(listeners) = 0
  THEN pc' = "idle" /\ cursor' = 0
  ELSE pc' = "updateListeners" /\ cursor' = 1

\* the arrays handed out by an earlier notification are garbage
Collected(live) == [a \in DOMAIN arrays |-> IF a = LiveArray THEN live ELSE <<>>]

\* a registration that drops the callbacks registered before
addListenerReplacing(listenerFn) ==
  /\ pc = "idle"
  /\ Len(listeners) < MaxListeners
  /\ listeners' = <<listenerFn>>
  /\ arrays' = Collected(projects)
  /\ op' = [name |-> "addListener", id |-> "", title |-> "", description |-> "",
            people |-> 0, status |-> Active, changed |-> FALSE]
  /\ post' = [arr |-> projects, objs |-> objs]
  /\ log' = <<>>
  /\ UNCHANGED <<objs, assignedProjects, pc, cursor>>

addListener(listenerFn) ==
  /\ pc = "idle"
  /\ Len(listeners) < MaxListeners
  /\ listeners' = push(listeners, listenerFn)
  /\ arrays' = Collected(projects)
  /\ op' = [name |-> "addListener", id |-> "", title |-> "", description |-> "",
            people |-> 0, status |-> Active, changed |-> FALSE]
  /\ post' = [arr |-> projects, objs |-> objs]
  /\ log' = <<>>
  /\ UNCHANGED <<objs, assignedProjects, pc, cursor>>

addProject(title, description, numOfPeople, random) ==
  /\ pc = "idle"
  /\ Len(projects) < MaxProjects
  /\ LET newProject == Project(toString(random), title, description,
                               numOfPeople, Active)
         ref == Len(objs) + 1
     IN /\ objs' = Append(objs, newProject)
        /\ arrays' = Collected(push(projects, ref))
  /\ op' = [name |-> "addProject", id |-> "", title |-> title,
            description |-> description, people |-> numOfPeople,
            status |-> Active, changed |-> TRUE]
  /\ post' = [arr |-> arrays'[LiveArray], objs |-> objs']
  /\ log' = <<>>
  /\ updateListeners
  /\ UNCHANGED <<listeners, assignedProjects>>

\* a moveProject that does not call updateListeners
moveProjectSilent(projectId, newStatus) ==
  /\ pc = "idle"
  /\ LET project == find(projects, objs, projectId)
     IN IF project # Undefined /\ objs[project].status # newStatus
        THEN objs' = [objs EXCEPT ![project].status = newStatus]
        ELSE objs' = objs
  /\ pc' = "idle"
  /\ cursor' = 0
  /\ arrays' = Collected(projects)
  /\ op' = [name |-> "moveProject", id |-> projectId, title |-> "",
            description |-> "", people |-> 0, status |-> newStatus,
            changed |-> (objs' # objs)]
  /\ post' = [arr |-> arrays'[LiveArray], objs |-> objs']
  /\ log' = <<>>
  /\ UNCHANGED <<listeners, assignedProjects>>

moveProject(projectId, newStatus) ==
  /\ pc = "idle"
  /\ LET project == find(projects, objs, projectId)
     IN IF project # Undefined /\ objs[project].status # newStatus
        THEN /\ objs' = [objs EXCEPT ![project].status = newStatus]
             /\ updateListeners
        ELSE /\ objs' = objs
             /\ pc' = "idle"
             /\ cursor' = 0
  /\ arrays' = Collected(projects)
  /\ op' = [name |-> "moveProject", id |-> projectId, title |-> "",
            description |-> "", people |-> 0, status |-> newStatus,
            changed |-> (objs' # objs)]
  /\ post' = [arr |-> arrays'[LiveArray], objs |-> objs']
  /\ log' = <<>>
  /\ UNCHANGED <<listeners, assignedProjects>>

\* ---------------------------------------------------------------- the loop
\* a loop that walks the listeners from the last registered to the first
listenerReversed(k) == Len(listeners) + 1 - k

\* the listener called in the k-th iteration of for (const listenerFn of this.listeners)
listenerOf(k) == k

\* where control goes when a loop of updateListeners is over: to the caller
\* of the store if no loop is suspended, else back into the callback that
\* made the call, and from there on to the next iteration of its loop
RECURSIVE Return(_)
Return(st) ==
  IF st = <<>> THEN [pc |-> "idle", cursor |-> 0, stack |-> <<>>]
  ELSE LET saved == st[Len(st)]
           rest == SubSeq(st, 1, Len(st) - 1)
       IN IF saved = Len(listeners) THEN Return(rest)
          ELSE [pc |-> "updateListeners", cursor |-> saved + 1, stack |-> rest]

\* the end of one iteration of the loop
Advance ==
  IF cursor = Len(listeners)
  THEN LET r == Return(stack)
       IN pc' = r.pc /\ cursor' = r.cursor /\ stack' = r.stack
  ELSE pc' = pc /\ cursor' = cursor + 1 /\ stack' = stack

\* one iteration with a copy taken when the operation mutated the store
InvokeStale(i, did, arr2, objs2) ==
  /\ arrays' = [arrays EXCEPT ![slice(i)] = arr2]
  /\ objs' = objs2
  /\ log' = Append(log, [listener |-> i, did |-> did, at |-> slice(i),
                         received |-> post.arr, view |-> objs])
  /\ Advance
  /\ UNCHANGED <<listeners, op, post, thrown>>
  /\ UNCHANGED <<singletonVars, formVars, dragVars>>

\* one iteration: listenerFn(this.projects.slice()), where the callback
\* leaves its array as arr2 and the heap of projects as objs2
Invoke(i, did, arr2, objs2) ==
  /\ arrays' = [arrays EXCEPT ![slice(i)] = arr2]
  /\ objs' = objs2
  /\ log' = Append(log, [listener |-> i, did |-> did, at |-> slice(i),
                         received |-> projects, view |-> objs])
  /\ Advance
  /\ UNCHANGED <<listeners, op, post, thrown>>
  /\ UNCHANGED <<singletonVars, formVars, dragVars>>

\* the callback registered by ProjectList.configure
ListViewListener ==
  /\ pc = "updateListeners"
  /\ LET i == listenerOf(cursor)
     IN /\ listeners[i] \in {"active", "finished"}
        /\ assignedProjects' =
             [assignedProjects EXCEPT ![i] = filter(projects, objs, listeners[i])]
        /\ Invoke(i, "filter", projects, objs)

\* any other callback: it reads what it received,
ObserverRead ==
  /\ pc = "updateListeners"
  /\ LET i == listenerOf(cursor)
     IN /\ listeners[i] = "observer"
        /\ Invoke(i, "read", projects, objs)
        /\ UNCHANGED assignedProjects

\* or adds an entry to the array it received,
ObserverPush ==
  /\ pc = "updateListeners"
  /\ LET i == listenerOf(cursor)
     IN /\ listeners[i] = "observer"
        /\ Invoke(i, "push", push(projects, projects[1]), objs)
        /\ UNCHANGED assignedProjects

\* or removes one,
ObserverPop ==
  /\ pc = "updateListeners"
  /\ LET i == listenerOf(cursor)
     IN /\ listeners[i] = "observer"
        /\ Invoke(i, "pop", pop(projects), objs)
        /\ UNCHANGED assignedProjects

\* or reorders it,
ObserverReverse ==
  /\ pc = "updateListeners"
  /\ LET i == listenerOf(cursor)
     IN /\ listeners[i] = "observer"
        /\ Len(projects) > 1
        /\ Invoke(i, "reverse", reverse(projects), objs)
        /\ UNCHANGED assignedProjects

\* or assigns the status field of a project it finds in that array
ObserverSetStatus ==
  /\ pc = "updateListeners"
  /\ LET i == listenerOf(cursor)
     IN /\ listeners[i] = "observer"
        /\ \E j \in 1..Len(projects) :
             LET prj == projects[j]
                 other == IF objs[prj].status = Active THEN Finished ELSE Active
             IN Invoke(i, "setStatus", projects,
                       [objs EXCEPT ![prj].status = other])
        /\ UNCHANGED assignedProjects

\* a store call made from outside a notification
FromOutside ==
  /\ instance # Undefined
  /\ thrown' = FALSE
  /\ UNCHANGED <<stack, singletonVars>>

AddListener ==
  /\ \E listenerFn \in ListenerKinds : addListener(listenerFn)
  /\ FromOutside
  /\ UNCHANGED <<formVars, dragVars>>

AddProject ==
  /\ \E title \in Titles, description \in Descriptions,
        numOfPeople \in PeopleCounts, random \in RandomOutcomes :
          addProject(title, description, numOfPeople, random)
  /\ FromOutside
  /\ UNCHANGED <<formVars, dragVars>>

MoveProject ==
  /\ \E projectId \in PayloadIds, newStatus \in ProjectStatus :
          moveProject(projectId, newStatus)
  /\ FromOutside
  /\ UNCHANGED <<formVars, dragVars>>

Next ==
  \/ AddListener
  \/ AddProject
  \/ MoveProject
  \/ ListViewListener
  \/ ObserverRead
  \/ ObserverPush
  \/ ObserverPop
  \/ ObserverReverse
  \/ ObserverSetStatus

Spec == Init /\ [][Next]_vars

\* ---------------------------------------------------------------- a callback that throws
\* a callback throws: nothing catches it in updateListeners, in addProject or
\* in moveProject, so the loop is abandoned and the caller gets the exception
ObserverThrows ==
  /\ pc = "updateListeners"
  /\ LET i == listenerOf(cursor)
     IN /\ listeners[i] = "observer"
        /\ arrays' = [arrays EXCEPT ![slice(i)] = projects]
        /\ log' = Append(log, [listener |-> i, did |-> "throw", at |-> slice(i),
                               received |-> projects, view |-> objs])
  /\ pc' = "idle"
  /\ cursor' = 0
  /\ stack' = <<>>
  /\ thrown' = TRUE
  /\ UNCHANGED <<objs, listeners, assignedProjects, op, post>>
  /\ UNCHANGED <<singletonVars, formVars, dragVars>>

NextThrowing == Next \/ ObserverThrows

SpecThrowing == Init /\ [][NextThrowing]_vars

\* ---------------------------------------------------------------- a callback that calls the store
\* a callback calls projectState.addProject: the project is appended and a
\* loop of updateListeners starts inside the callback, the loop that invoked
\* the callback waiting at its iteration
ObserverCallsAddProject ==
  /\ pc = "updateListeners"
  /\ Len(stack) < MaxDepth
  /\ Len(projects) < MaxProjects
  /\ LET i == listenerOf(cursor)
     IN /\ listeners[i] = "observer"
        /\ log' = Append(log, [listener |-> i, did |-> "addProject", at |-> slice(i),
                               received |-> projects, view |-> objs])
        /\ \E title \in Titles, description \in Descriptions,
              numOfPeople \in PeopleCounts, random \in RandomOutcomes :
             LET newProject == Project(toString(random), title, description,
                                       numOfPeople, Active)
                 ref == Len(objs) + 1
             IN /\ objs' = Append(objs, newProject)
                /\ arrays' = [arrays EXCEPT ![slice(i)] = projects,
                                            ![LiveArray] = push(projects, ref)]
  /\ stack' = Append(stack, cursor)
  /\ pc' = "updateListeners"
  /\ cursor' = 1
  /\ UNCHANGED <<listeners, assignedProjects, op, post, thrown>>
  /\ UNCHANGED <<singletonVars, formVars, dragVars>>

\* a callback calls projectState.moveProject: when a status changes, a loop
\* of updateListeners starts inside the callback; when none does, the call
\* returns at once and the callback with it
ObserverCallsMoveProject ==
  /\ pc = "updateListeners"
  /\ Len(stack) < MaxDepth
  /\ LET i == listenerOf(cursor)
     IN /\ listeners[i] = "observer"
        /\ arrays' = [arrays EXCEPT ![slice(i)] = projects]
        /\ \E projectId \in PayloadIds, newStatus \in ProjectStatus :
             LET project == find(projects, objs, projectId)
             IN IF project # Undefined /\ objs[project].status # newStatus
                THEN /\ objs' = [objs EXCEPT ![project].status = newStatus]
                     /\ log' = Append(log, [listener |-> i, did |-> "moveProject",
                                            at |-> slice(i), received |-> projects,
                                            view |-> objs])
                     /\ stack' = Append(stack, cursor)
                     /\ pc' = "updateListeners"
                     /\ cursor' = 1
                ELSE /\ objs' = objs
                     /\ log' = Append(log, [listener |-> i,
                                            did |-> "moveProject, nothing changed",
                                            at |-> slice(i), received |-> projects,
                                            view |-> objs])
                     /\ Advance
  /\ UNCHANGED <<listeners, assignedProjects, op, post, thrown>>
  /\ UNCHANGED <<singletonVars, formVars, dragVars>>

NextReentrant ==
  \/ AddListener
  \/ AddProject
  \/ MoveProject
  \/ ListViewListener
  \/ ObserverRead
  \/ ObserverCallsAddProject
  \/ ObserverCallsMoveProject

SpecReentrant == Init /\ [][NextReentrant]_vars

\* ---------------------------------------------------------------- the singleton
\* a getInstance that constructs a store on every call
getInstanceFresh ==
  /\ pc = "idle"
  /\ instance' = created + 1
  /\ created' = created + 1
  /\ listeners' = <<>>
  /\ arrays' = Collected(<<>>)
  /\ op' = [name |-> "getInstance", id |-> "", title |-> "", description |-> "",
            people |-> 0, status |-> Active, changed |-> FALSE]
  /\ post' = [arr |-> arrays'[LiveArray], objs |-> objs]
  /\ log' = <<>>
  /\ thrown' = FALSE
  /\ UNCHANGED <<objs, assignedProjects, pc, cursor, stack, formVars, dragVars>>

\* static getInstance(): the stored instance, which the first call constructs
getInstance ==
  /\ pc = "idle"
  /\ IF instance # Undefined
     THEN UNCHANGED <<instance, created, listeners>> /\ arrays' = Collected(projects)
     ELSE /\ instance' = created + 1
          /\ created' = created + 1
          /\ listeners' = <<>>
          /\ arrays' = Collected(<<>>)
  /\ op' = [name |-> "getInstance", id |-> "", title |-> "", description |-> "",
            people |-> 0, status |-> Active, changed |-> FALSE]
  /\ post' = [arr |-> arrays'[LiveArray], objs |-> objs]
  /\ log' = <<>>
  /\ thrown' = FALSE
  /\ UNCHANGED <<objs, assignedProjects, pc, cursor, stack, formVars, dragVars>>

GetInstance == getInstance

NextSingleton == GetInstance \/ Next

SpecSingleton == InitSingleton /\ [][NextSingleton]_vars

\* ---------------------------------------------------------------- the form
\* Text is a sequence of characters. A JavaScript number is nan, or m / 10^e
\* with no trailing zero in m when e > 0.
NaN == [nan |-> TRUE, m |-> 0, e |-> 0]
Num(m, e) == [nan |-> FALSE, m |-> m, e |-> e]

DigitChars == <<"0", "1", "2", "3", "4", "5", "6", "7", "8", "9">>
IsDigit(c) == \E d \in 1..10 : DigitChars[d] = c
DigitValue(c) == (CHOOSE d \in 1..10 : DigitChars[d] = c) - 1

RECURSIVE Pow10(_)
Pow10(e) == IF e = 0 THEN 1 ELSE 10 * Pow10(e - 1)

\* String.prototype.trim, with the space as the white space
RECURSIVE trimStart(_)
trimStart(str) ==
  IF str # <<>> /\ Head(str) = " " THEN trimStart(Tail(str)) ELSE str

RECURSIVE trimEnd(_)
trimEnd(str) ==
  IF str # <<>> /\ str[Len(str)] = " "
  THEN trimEnd(SubSeq(str, 1, Len(str) - 1)) ELSE str

trim(str) == trimEnd(trimStart(str))

RECURSIVE DigitsValue(_)
DigitsValue(str) ==
  IF str = <<>> THEN 0
  ELSE 10 * DigitsValue(SubSeq(str, 1, Len(str) - 1)) + DigitValue(str[Len(str)])

RECURSIVE DropZeros(_)
DropZeros(str) ==
  IF str # <<>> /\ str[Len(str)] = "0"
  THEN DropZeros(SubSeq(str, 1, Len(str) - 1)) ELSE str

\* the unary + of +enteredPeople, on texts of digits, points, spaces and
\* letters: white space is trimmed, the empty text is 0, a decimal literal
\* is its value and anything else is NaN
StringToNumber(str) ==
  LET t == trim(str)
      points == {i \in 1..Len(t) : t[i] = "."}
      decimal == /\ \A i \in 1..Len(t) : IsDigit(t[i]) \/ t[i] = "."
                 /\ Cardinality(points) <= 1
                 /\ \E i \in 1..Len(t) : IsDigit(t[i])
  IN IF t = <<>> THEN Num(0, 0)
     ELSE IF ~decimal THEN NaN
     ELSE LET p == IF points = {} THEN Len(t) + 1 ELSE CHOOSE i \in points : TRUE
              int == SubSeq(t, 1, p - 1)
              frac == DropZeros(SubSeq(t, p + 1, Len(t)))
          IN Num(DigitsValue(int \o frac), Len(frac))

RECURSIVE NatToString(_)
NatToString(n) ==
  IF n < 10 THEN <<DigitChars[n + 1]>>
  ELSE NatToString(n \div 10) \o <<DigitChars[(n % 10) + 1]>>

RECURSIVE PadZeros(_, _)
PadZeros(str, width) ==
  IF Len(str) >= width THEN str ELSE PadZeros(<<"0">> \o str, width)

\* Number.prototype.toString
NumberToString(n) ==
  IF n.nan THEN <<"N", "a", "N">>
  ELSE IF n.e = 0 THEN NatToString(n.m)
  ELSE NatToString(n.m \div Pow10(n.e)) \o <<".">>
         \o PadZeros(NatToString(n.m % Pow10(n.e)), n.e)

\* a >= b and a <= b on numbers: false when either is NaN
GreaterEq(a, b) == ~a.nan /\ ~b.nan /\ a.m * Pow10(b.e) >= b.m * Pow10(a.e)
LessEq(a, b) == ~a.nan /\ ~b.nan /\ a.m * Pow10(b.e) <= b.m * Pow10(a.e)

\* a value of type string | number
StringValue(str) == [type |-> "string", chars |-> str, num |-> NaN]
NumberValue(n) == [type |-> "number", chars |-> <<>>, num |-> n]

\* an optional property of a Validatable: absent, or present with a value
None == <<>>
Some(x) == <<x>>

Validatable(value, required, minLength, maxLength, min, max) ==
  [value |-> value, required |-> required, minLength |-> minLength,
   maxLength |-> maxLength, min |-> min, max |-> max]

\* validatableInput.value.toString()
ValueToString(value) ==
  IF value.type = "string" THEN value.chars ELSE NumberToString(value.num)

\* a validate that compares lengths and ranges whatever the type of the
\* value: the length of a number is undefined and compares false, and so
\* does a text that is not a numeral against a number
validateUntyped(validatableInput) ==
  LET v == validatableInput
      n == IF v.value.type = "number" THEN v.value.num
           ELSE StringToNumber(v.value.chars)
  IN /\ (v.required # None /\ v.required[1]) =>
           Len(trim(ValueToString(v.value))) # 0
     /\ v.minLength # None =>
           (v.value.type = "string" /\ Len(v.value.chars) >= v.minLength[1])
     /\ v.maxLength # None =>
           (v.value.type = "string" /\ Len(v.value.chars) <= v.maxLength[1])
     /\ v.min # None => GreaterEq(n, Num(v.min[1], 0))
     /\ v.max # None => LessEq(n, Num(v.max[1], 0))

validate(validatableInput) ==
  LET v == validatableInput
      isValid1 == IF v.required # None /\ v.required[1]
                  THEN Len(trim(ValueToString(v.value))) # 0
                  ELSE TRUE
      isValid2 == IF v.minLength # None /\ v.value.type = "string"
                  THEN isValid1 /\ Len(v.value.chars) >= v.minLength[1]
                  ELSE isValid1
      isValid3 == IF v.maxLength # None /\ v.value.type = "string"
                  THEN isValid2 /\ Len(v.value.chars) <= v.maxLength[1]
                  ELSE isValid2
      isValid4 == IF v.min # None /\ v.value.type = "number"
                  THEN isValid3 /\ GreaterEq(v.value.num, Num(v.min[1], 0))
                  ELSE isValid3
      isValid5 == IF v.max # None /\ v.value.type = "number"
                  THEN isValid4 /\ LessEq(v.value.num, Num(v.max[1], 0))
                  ELSE isValid4
  IN isValid5

\* the result of gatherUserInput when it is not the tuple
Void == <<>>

gatherUserInput(enteredTitle, enteredDescription, enteredPeople) ==
  LET titleValidatable ==
        Validatable(StringValue(enteredTitle), Some(TRUE), None, None, None, None)
      descriptionValidatable ==
        Validatable(StringValue(enteredDescription), Some(TRUE), Some(3),
                    None, None, None)
      peopleValidatable ==
        Validatable(NumberValue(StringToNumber(enteredPeople)), Some(TRUE),
                    None, None, Some(1), Some(5))
  IN IF \/ ~validate(titleValidatable)
        \/ ~validate(descriptionValidatable)
        \/ ~validate(peopleValidatable)
     THEN Void
     ELSE <<enteredTitle, enteredDescription, StringToNumber(enteredPeople)>>

\* ---------------------------------------------------------------- the page
\* what the user types into the three fields
TypedTitles == {<<" ">>, <<"A">>}
TypedDescriptions == {<<"a", "b">>, <<"a", "b", "c">>}
TypedPeople == {<<"3">>, <<"6">>, <<"2", ".", "5">>}

\* the user edits the form
TypeInput ==
  /\ pc = "idle"
  /\ Len(listeners) = 2
  /\ payload = ""
  /\ titleInput' \in TypedTitles
  /\ descriptionInput' \in TypedDescriptions
  /\ peopleInput' \in TypedPeople
  /\ alerted' = FALSE
  /\ UNCHANGED <<storeVars, singletonVars, thrown, stack, validatable, isValid,
                 dragVars>>

\* ProjectInput.submitHandler, with gatherUserInput and clearInputs
submitHandler ==
  /\ pc = "idle"
  /\ payload = ""
  /\ LET userInput == gatherUserInput(titleInput, descriptionInput, peopleInput)
     IN IF userInput # Void
        THEN /\ \E random \in RandomOutcomes :
                  addProject(userInput[1], userInput[2], userInput[3], random)
             /\ titleInput' = <<>>
             /\ descriptionInput' = <<>>
             /\ peopleInput' = <<>>
             /\ alerted' = FALSE
             /\ thrown' = FALSE
        ELSE /\ alerted' = TRUE
             /\ UNCHANGED <<storeVars, thrown, titleInput, descriptionInput,
                            peopleInput>>
  /\ UNCHANGED <<singletonVars, stack, validatable, isValid, dragVars>>

Submit == submitHandler

\* new ProjectList('active') and then new ProjectList('finished'): each
\* constructor registers its listener in configure()
NewProjectList ==
  /\ \/ listeners = <<>> /\ addListener("active")
     \/ listeners = <<"active">> /\ addListener("finished")
  /\ FromOutside
  /\ UNCHANGED <<formVars, dragVars>>

\* ProjectItem.dragStartHandler on the j-th item rendered in the list of view v
dragStartHandler(v, j) ==
  /\ pc = "idle"
  /\ Len(listeners) = 2
  /\ payload = ""
  /\ j \in 1..Len(assignedProjects[v])
  /\ payload' = objs[assignedProjects[v][j]].id
  /\ dragged' = assignedProjects[v][j]
  /\ droppedOn' = Undefined
  /\ UNCHANGED <<storeVars, singletonVars, thrown, stack, formVars>>

DragStart == \E v \in 1..2, j \in 1..MaxProjects : dragStartHandler(v, j)

\* a drag of some other text onto the page
DragText ==
  /\ pc = "idle"
  /\ Len(listeners) = 2
  /\ payload = ""
  /\ payload' = "nonexistent-id"
  /\ dragged' = Undefined
  /\ droppedOn' = Undefined
  /\ UNCHANGED <<storeVars, singletonVars, thrown, stack, formVars>>

\* ProjectList.dropHandler of view v, which ends the drag
dropHandler(v) ==
  /\ payload # ""
  /\ LET prjId == payload
     IN moveProject(prjId, IF listeners[v] = "active" THEN Active ELSE Finished)
  /\ payload' = ""
  /\ dragged' = Undefined
  /\ droppedOn' = v
  /\ FromOutside
  /\ UNCHANGED formVars

Drop == \E v \in 1..2 : dropHandler(v)

NextApp ==
  \/ NewProjectList
  \/ TypeInput
  \/ Submit
  \/ DragStart
  \/ DragText
  \/ Drop
  \/ ListViewListener

SpecApp == Init /\ [][NextApp]_vars

\* ---------------------------------------------------------------- validate alone
\* the contents of the three fields at a submit
TitleInputs == TypedTitles \cup {<<>>, <<" ", "A", " ">>}
DescriptionInputs == TypedDescriptions \cup {<<>>, <<" ", " ", " ">>, <<" ", "a", " ">>}
PeopleInputs == TypedPeople \cup {<<>>, <<" ">>, <<"0">>, <<"1">>, <<"5">>, <<"x">>,
                               <<" ", "4", " ">>, <<"0", ".", "5">>}

Values ==
  {StringValue(str) : str \in {<<>>, <<" ", " ", " ">>, <<"a", "b">>,
                               <<"a", "b", "c", "d">>, <<"3">>}}
    \cup {NumberValue(n) : n \in {NaN, Num(0, 0), Num(3, 0), Num(25, 1), Num(6, 0)}}

Validatables ==
  {Validatable(value, required, minLength, maxLength, min, max) :
     value \in Values, required \in {None, Some(TRUE), Some(FALSE)},
     minLength \in {None, Some(3)}, maxLength \in {None, Some(3)},
     min \in {None, Some(1)}, max \in {None, Some(5)}}

\* any form content and any argument of validate
InitValidate ==
  /\ InitFields
  /\ instance = 1
  /\ created = 1
  /\ titleInput \in TitleInputs
  /\ descriptionInput \in DescriptionInputs
  /\ peopleInput \in PeopleInputs
  /\ validatable \in Validatables
  /\ isValid = <<>>

Validate ==
  /\ isValid = <<>>
  /\ isValid' = Some(validate(validatable))
  /\ UNCHANGED <<storeVars, singletonVars, thrown, stack, titleInput,
                 descriptionInput, peopleInput, alerted, validatable, dragVars>>

NextValidate == Validate \/ Submit

SpecValidate == InitValidate /\ [][NextValidate]_vars

\* ---------------------------------------------------------------- properties
Range(f) == {f[i] : i \in DOMAIN f}

\* a step that is a call of the named store operation
Calls(name) == pc = "idle" /\ op'.name = name

\* the stored projects that carry this id
Stored(projectId) == {r \in Range(projects) : objs[r].id = projectId}

\* every registered callback appears in the log exactly once
EachListenerOnce ==
  /\ Len(log) = Len(listeners)
  /\ \A i \in 1..Len(listeners) :
       Cardinality({k \in 1..Len(log) : log[k].listener = i}) = 1

\* C1: when addProject or a status-changing moveProject has returned, every
\* registered callback was invoked exactly once, and the snapshot each one
\* received equals the store as it was right after the mutation: the same
\* projects in the same order with the same statuses.
NotifiedOnceWithPostState ==
  /\ (pc = "idle" /\ op.changed) => EachListenerOnce
  /\ \A k \in 1..Len(log) :
       log[k].received = post.arr /\ log[k].view = post.objs

\* C2: a call of addProject makes the sequence one longer; the project at
\* the end is new, Active and carries the given title, description and
\* people; the projects stored before keep their position and their fields.
AddProjectAppends ==
  [][Calls("addProject") =>
       /\ Len(projects') = Len(projects) + 1
       /\ SubSeq(projects', 1, Len(projects)) = projects
       /\ \A r \in Range(projects) : objs'[r] = objs[r]
       /\ LET new == projects'[Len(projects')]
          IN /\ new \notin Range(projects)
             /\ objs'[new].status = Active
             /\ objs'[new].title = op'.title
             /\ objs'[new].description = op'.description
             /\ objs'[new].people = op'.people]_vars

AddProjectAppendsWitness ==
  /\ pc = "idle"
  /\ op.name = "addProject"
  /\ Len(projects) = 3
  /\ objs[projects[1]].status = Finished
  /\ objs[projects[3]].title # objs[projects[1]].title

\* C3: a call of moveProject with the id of a stored project whose status
\* differs from newStatus sets the status of exactly that project, keeps the
\* sequence and every other field, and when it has returned every
\* subscriber was notified exactly once with a snapshot as long as the store.
MoveChangesExactlyThatProject ==
  /\ [][(Calls("moveProject")
          /\ \E r \in Stored(op'.id) : objs[r].status # op'.status) =>
            /\ projects' = projects
            /\ \E r \in Stored(op'.id) :
                 /\ objs[r].status # op'.status
                 /\ objs' = [objs EXCEPT ![r].status = op'.status]]_vars
  /\ []((pc = "idle" /\ op.name = "moveProject" /\ op.changed) =>
            /\ EachListenerOnce
            /\ \A k \in 1..Len(log) : Len(log[k].received) = Len(projects))

\* C4: a call of moveProject with the id of a stored project and that
\* project's current status changes nothing in the store and notifies
\* nobody.
MoveToCurrentStatusIsNoOp ==
  [][(Calls("moveProject")
       /\ \E r \in Stored(op'.id) : objs[r].status = op'.status) =>
         /\ projects' = projects
         /\ objs' = objs
         /\ log' = <<>>
         /\ pc' = "idle"]_vars

\* C5: a call of moveProject with an id that no stored project has changes
\* neither the sequence nor any field of any project, notifies nobody and
\* returns normally.
MoveUnknownIdIsNoOp ==
  [][(Calls("moveProject") /\ Stored(op'.id) = {}) =>
         /\ projects' = projects
         /\ objs' = objs
         /\ log' = <<>>
         /\ pc' = "idle"]_vars

MoveUnknownIdWitness ==
  /\ pc = "idle"
  /\ op.name = "moveProject"
  /\ op.id = "nonexistent-id"
  /\ Len(projects) = 2
  /\ Len(listeners) = 2
  /\ log = <<>>

\* C6: no two stored projects have the same id.
IdsUnique ==
  \A i, j \in 1..Len(projects) :
    i # j => objs[projects[i]].id # objs[projects[j]].id

\* C7: whatever a subscriber adds to, removes from or reorders in the array
\* it received, the store's sequence stays what the operation made it, every
\* snapshot handed out equals that sequence, and every snapshot is an array
\* of its own: not the store's, and not another subscriber's.
SnapshotIsOwnCopy ==
  /\ projects = post.arr
  /\ \A k \in 1..Len(log) :
       /\ log[k].received = post.arr
       /\ log[k].at # LiveArray
       /\ \A j \in 1..Len(log) : j # k => log[j].at # log[k].at

SnapshotIsOwnCopyWitness ==
  /\ Len(log) = 2
  /\ log[1].did \in {"push", "pop", "reverse"}
  /\ arrays[log[1].at] # projects
  /\ arrays[log[2].at] = projects
  /\ Len(projects) >= 2

\* C8: whatever a subscriber assigns to a field of a project it finds in the
\* snapshot it received, the stored projects keep the fields the store gave
\* them, and no subscriber is shown anything else.
SnapshotFieldsIsolated ==
  /\ objs = post.objs
  /\ \A k \in 1..Len(log) : log[k].view = post.objs

\* C9: when the listener of a list view of type 'active' (resp. 'finished')
\* has run, the view's assignedProjects holds exactly the stored projects
\* whose status is Active (resp. Finished), each once, in insertion order.
ListViewFilters ==
  [][(Len(log') = Len(log) + 1
        /\ listeners[log'[Len(log')].listener] \in {"active", "finished"}) =>
       LET i == log'[Len(log')].listener
           want == IF listeners[i] = "active" THEN Active ELSE Finished
           got == assignedProjects'[i]
           pos(r) == CHOOSE n \in 1..Len(projects') : projects'[n] = r
       IN /\ Range(got) = {r \in Range(projects') : objs'[r].status = want}
          /\ \A a, b \in 1..Len(got) : a < b => pos(got[a]) < pos(got[b])]_vars

ListViewFiltersWitness ==
  /\ pc = "idle"
  /\ Len(log) = 2
  /\ listeners = <<"active", "finished">>
  /\ Len(projects) = 3
  /\ objs[projects[1]].status = Active
  /\ objs[projects[2]].status = Finished
  /\ objs[projects[3]].status = Active
  /\ assignedProjects[1] = <<projects[1], projects[3]>>
  /\ assignedProjects[2] = <<projects[2]>>

\* C10: during a notification the callbacks run in the order of their
\* registration, the first one already sees the mutation, no store call
\* starts before the loop is over, and when the operation has returned all
\* callbacks have run.
NotificationSynchronousOrdered ==
  /\ \A k \in 1..Len(log) : log[k].listener = k
  /\ Len(log) >= 1 =>
       /\ log[1].received = post.arr
       /\ log[1].view = post.objs
       /\ op.name = "addProject" =>
            LET new == log[1].view[log[1].received[Len(log[1].received)]]
            IN new.title = op.title /\ new.status = Active
       /\ op.name = "moveProject" =>
            \E r \in Range(log[1].received) :
               log[1].view[r].id = op.id /\ log[1].view[r].status = op.status
  /\ pc = "updateListeners" =>
       op.changed /\ cursor = Len(log) + 1 /\ Len(log) < Len(listeners)
  /\ (pc = "idle" /\ op.changed) => Len(log) = Len(listeners)

NotificationSynchronousOrderedWitness ==
  /\ pc = "idle"
  /\ op.name = "moveProject"
  /\ op.changed
  /\ listeners = <<"observer", "finished">>
  /\ Len(log) = 2

\* C11: in every step the project sequence keeps its entries in place and can
\* only get longer at the end, the id, title, description and people of a
\* stored project stay what they were, and the status of a stored project
\* changes only in the step of a moveProject call made with that project's id.
AppendOnlyStatusOnlyByMove ==
  [][/\ Len(projects') >= Len(projects)
     /\ SubSeq(projects', 1, Len(projects)) = projects
     /\ \A r \in Range(projects) :
          /\ objs'[r].id = objs[r].id
          /\ objs'[r].title = objs[r].title
          /\ objs'[r].description = objs[r].description
          /\ objs'[r].people = objs[r].people
          /\ objs'[r].status # objs[r].status =>
               Calls("moveProject") /\ op'.id = objs[r].id]_vars

\* C12: the status of every stored project is Active or Finished, a project
\* is Active when addProject has stored it, and a call of moveProject with
\* the id of a stored project and the other status leaves that project with
\* that status, whichever of the two it had.
StatusIsTwoStateMachine ==
  /\ [](\A r \in Range(projects) : objs[r].status \in ProjectStatus)
  /\ [][Calls("addProject") =>
          objs'[projects'[Len(projects')]].status = Active]_vars
  /\ [][Calls("moveProject") =>
          \A r \in Stored(op'.id) : objs'[r].status = op'.status]_vars

\* C14: a call of addListener puts the callback at the end of the listeners
\* and does nothing else: the projects, the views and the callbacks already
\* registered stay as they are and nothing is invoked; no step ever removes
\* or moves a registered callback, and every notification reaches them all.
AddListenerOnlyRegisters ==
  /\ [][Calls("addListener") =>
          /\ \E listenerFn \in ListenerKinds :
               listeners' = Append(listeners, listenerFn)
          /\ projects' = projects
          /\ objs' = objs
          /\ assignedProjects' = assignedProjects
          /\ log' = <<>>
          /\ pc' = "idle"]_vars
  /\ [][/\ Len(listeners') >= Len(listeners)
        /\ SubSeq(listeners', 1, Len(listeners)) = listeners]_vars
  /\ []((pc = "idle" /\ op.changed) => EachListenerOnce)

AddListenerOnlyRegistersWitness ==
  /\ pc = "idle"
  /\ op.name = "addListener"
  /\ Len(projects) = 2
  /\ listeners = <<"observer", "active">>
  /\ assignedProjects[2] = <<>>
  /\ log = <<>>

\* C15: the class constructs one store at most; a call of getInstance leaves
\* the class with an instance, and once there is one no step replaces it and
\* a call of getInstance keeps its projects and its listeners.
SingleInstance ==
  /\ [](created <= 1 /\ (instance # Undefined => instance = 1 /\ created = 1))
  /\ [][Calls("getInstance") => instance' # Undefined]_vars
  /\ [][instance # Undefined => instance' = instance]_vars
  /\ [][(Calls("getInstance") /\ instance # Undefined) =>
          /\ listeners' = listeners
          /\ projects' = projects
          /\ objs' = objs]_vars

SingleInstanceWitness ==
  /\ pc = "idle"
  /\ op.name = "getInstance"
  /\ instance = 1
  /\ created = 1
  /\ Len(projects) = 2
  /\ Len(listeners) = 2

\* C13: a submit of a form that fails validation does not call addProject,
\* leaves the store as it is and notifies nobody; and every stored project
\* has a non-empty title, a description of at least 3 characters and a whole
\* number of people from 1 to 5.
WellFormed(project) ==
  /\ project.title # <<>>
  /\ Len(project.description) >= 3
  /\ ~project.people.nan
  /\ project.people.e = 0
  /\ project.people.m \in 1..5

MalformedNeverStored ==
  /\ [][(/\ pc = "idle"
         /\ Len(listeners) = 2
         /\ payload = ""
         /\ gatherUserInput(titleInput, descriptionInput, peopleInput) = Void) =>
          /\ projects' = projects
          /\ objs' = objs
          /\ op'.name = op.name
          /\ log' = log
          /\ pc' = "idle"]_vars
  /\ [](\A r \in Range(projects) : WellFormed(objs[r]))

\* C16: with the two list views registered first, whenever no store call
\* is running the 'active' view holds exactly the Active stored projects and
\* the 'finished' view exactly the Finished ones, both in insertion order.
ViewsPartitionStore ==
  (pc = "idle" /\ Len(listeners) = 2) =>
    /\ assignedProjects[1] = SelectSeq(projects, LAMBDA r : objs[r].status = Active)
    /\ assignedProjects[2] = SelectSeq(projects, LAMBDA r : objs[r].status = Finished)

ViewsPartitionStoreWitness ==
  /\ pc = "idle"
  /\ op.name = "moveProject"
  /\ op.changed
  /\ Len(log) = 2
  /\ Len(projects) = 3
  /\ Len(assignedProjects[1]) = 1
  /\ assignedProjects[2] = <<projects[1], projects[3]>>

\* C17: a drop on a list view calls moveProject with the id of the drag
\* payload and the status of that list; after it the dragged project has
\* that status; if the dragged project already had it, the drop changes
\* nothing and notifies nobody; and so does a drop whose payload is no
\* stored id.
DropMovesDraggedProject ==
  [][(payload # "" /\ payload' = "") =>
       LET want == IF listeners[droppedOn'] = "active" THEN Active ELSE Finished
       IN /\ op'.name = "moveProject"
          /\ op'.id = payload
          /\ op'.status = want
          /\ dragged # Undefined =>
               /\ objs'[dragged].status = want
               /\ objs[dragged].status = want =>
                    (objs' = objs /\ projects' = projects /\ log' = <<>> /\ pc' = "idle")
          /\ Stored(payload) = {} =>
               (objs' = objs /\ projects' = projects /\ log' = <<>> /\ pc' = "idle")]_vars

\* C20: a submit stores one project made of the three fields exactly when
\* the title is not blank, the description is not blank and has at least 3
\* characters and the people field converts to a number from 1 to 5, and
\* otherwise stores nothing and alerts; and validate is the conjunction of
\* the required test, of the length tests on a string value only and of the
\* range tests on a number value only.
NonBlank(str) == \E i \in 1..Len(str) : str[i] # " "

FormAccepts ==
  /\ NonBlank(titleInput)
  /\ NonBlank(descriptionInput)
  /\ Len(descriptionInput) >= 3
  /\ LET n == StringToNumber(peopleInput)
     IN ~n.nan /\ Pow10(n.e) <= n.m /\ n.m <= 5 * Pow10(n.e)

Expected(v) ==
  /\ (v.required = Some(TRUE)) =>
       IF v.value.type = "string" THEN NonBlank(v.value.chars) ELSE TRUE
  /\ (v.value.type = "string" /\ v.minLength # None) =>
       Len(v.value.chars) >= v.minLength[1]
  /\ (v.value.type = "string" /\ v.maxLength # None) =>
       Len(v.value.chars) <= v.maxLength[1]
  /\ (v.value.type = "number" /\ v.min # None) =>
       (~v.value.num.nan /\ v.value.num.m >= v.min[1] * Pow10(v.value.num.e))
  /\ (v.value.type = "number" /\ v.max # None) =>
       (~v.value.num.nan /\ v.value.num.m <= v.max[1] * Pow10(v.value.num.e))

FormAcceptsExactlyValid ==
  /\ [][(pc = "idle" /\ isValid' = isValid) =>
          IF FormAccepts
          THEN /\ op'.name = "addProject"
               /\ Len(projects') = Len(projects) + 1
               /\ SubSeq(projects', 1, Len(projects)) = projects
               /\ LET new == objs'[projects'[Len(projects')]]
                  IN /\ new.title = titleInput
                     /\ new.description = descriptionInput
                     /\ new.people = StringToNumber(peopleInput)
               /\ ~alerted'
          ELSE /\ alerted'
               /\ projects' = projects
               /\ objs' = objs
               /\ op'.name = op.name]_vars
  /\ [](isValid # None => isValid[1] = Expected(validatable))

FormAcceptsExactlyValidWitness ==
  /\ isValid = Some(TRUE)
  /\ validatable.value.type = "number"
  /\ validatable.minLength = Some(3)
  /\ validatable.min = Some(1)
  /\ Len(projects) = 1
  /\ objs[projects[1]].title = <<" ", "A", " ">>
  /\ objs[projects[1]].description = <<" ", "a", " ">>
  /\ objs[projects[1]].people = Num(4, 0)

\* C19: when a callback throws, the store keeps what it held (nothing is
\* rolled back), the callbacks registered before the throwing one have run
\* and those registered after it have not, and the caller gets the failure;
\* after it the project is still appended, or the status still changed; and
\* a later addProject or moveProject works as usual.
ThrowKeepsMutation ==
  /\ [][(pc = "updateListeners" /\ thrown') =>
          /\ projects' = projects
          /\ objs' = objs
          /\ pc' = "idle"
          /\ Len(log') = cursor
          /\ \A k \in 1..cursor : log'[k].listener = k]_vars
  /\ [](thrown =>
          /\ projects = post.arr
          /\ op.name = "addProject" =>
               /\ projects # <<>>
               /\ objs[projects[Len(projects)]].title = op.title
          /\ op.name = "moveProject" =>
               objs[find(projects, objs, op.id)].status = op.status)
  /\ [][(thrown /\ Calls("addProject")) =>
          (Len(projects') = Len(projects) + 1 /\ ~thrown')]_vars
  /\ [][(thrown /\ Calls("moveProject") /\ Stored(op'.id) # {}) =>
          (objs'[find(projects, objs, op'.id)].status = op'.status /\ ~thrown')]_vars

\* the callbacks' calls of the store recorded in the log
InvocationsOf(j) == Cardinality({n \in 1..Len(log) : log[n].listener = j})

LastOf(j) ==
  CHOOSE n \in 1..Len(log) :
    log[n].listener = j /\ \A k \in (n + 1)..Len(log) : log[k].listener # j

\* every callback that was invoked received, the last time, the store's
\* sequence as it is now
LastSnapshotsCurrent ==
  \A j \in 1..Len(listeners) :
    InvocationsOf(j) > 0 => log[LastOf(j)].received = projects

====
